---- MODULE Spec2Model ----
(***************************************************************************)
(* A model of parser.py: the literal-value reconstruction of               *)
(* PythonClassParser (parse_value, _safe_parse, _unparse_with_fallback),   *)
(* the class and argument extraction built on it, and the folder scan of   *)
(* PythonFolderParser with the JSON serialisation of parse_folders.        *)
(*                                                                         *)
(* Python values are tagged pairs <<tag, payload>>; the tag decides the    *)
(* payload's shape.  Python strings are sequences of text fragments, so    *)
(* that the substring tests of the code ("NodeBase" in base,               *)
(* "Syntax error" in message) are computed and not looked up.              *)
(* A raised exception is the pair <<"raise", type>>.                       *)
(***************************************************************************)
EXTENDS Integers, Sequences, FiniteSets, TLC

VARIABLES
    pc,            \* where the running entry point stands
    node,          \* parse_value: the expression node it is handed
    value,         \* parse_value: what it returned, or the exception it raised
    fargs,         \* _extract_arguments: the ast.arguments it is handed
    arguments,     \* _extract_arguments: the dict it returned
    classdef,      \* extract_class_info: the class definition it is handed
    class_info,    \* extract_class_info: the record it returned
    base_paths,    \* PythonFolderParser.base_paths
    listing,       \* the file system: existing root -> what rglob('*.py') yields
    results,       \* scan_folders: its results dict
    ri,            \* scan_folders: position in base_paths (1-based)
    fi,            \* scan_folders: position in the current root's files
    file_results,  \* parse_file: its results dict for the current file
    scanned,       \* the files parse_file was called on, in order
    output         \* parse_folders: the JSON document, or the exception raised

valueVars == <<node, value>>
argsVars == <<fargs, arguments>>
classVars == <<classdef, class_info>>
scanVars == <<base_paths, listing, results, ri, fi, file_results, scanned, output>>
pureVars == <<valueVars, argsVars, classVars>>
vars == <<pc, pureVars, scanVars>>

(***************************************************************************)
(* Bounds of the model.                                                    *)
(***************************************************************************)
MaxElts == 2        \* entries of a flat display
MaxWraps == 2       \* displays nested around an expression
MaxArgs == 3        \* positional parameters of a method
MaxPosOnly == 1     \* positional-only parameters of a method
MaxKwOnly == 1      \* keyword-only parameters of a method
MaxBases == 2       \* base expressions of a class
MaxItems == 2       \* statements in a class body
MaxRoots == 2       \* entries of base_paths
MaxFiles == 2       \* files found under a root

(***************************************************************************)
(* Python values.                                                          *)
(***************************************************************************)
Text(fragments) == <<"str", fragments>>
PyStr(s) == Text(<<s>>)
PyInt(n) == <<"int", n>>
PyBool(b) == <<"bool", b>>
PyBytes(s) == <<"bytes", <<s>>>>
PyNone == <<"none", 0>>
Raise(t) == <<"raise", t>>
IsRaise(v) == v[1] = "raise"

\* hash(v): list, dict and set are unhashable; a tuple hashes its elements.
RECURSIVE Hashable(_)
Hashable(v) ==
    CASE v[1] \in {"list", "dict", "set"} -> FALSE
      [] v[1] = "tuple" -> \A i \in 1..Len(v[2]) : Hashable(v[2][i])
      [] OTHER -> TRUE

\* Python ==, as dict and set lookups use it: bool is an int (True == 1).
IsNumber(v) == v[1] \in {"int", "bool"}
NumberOf(v) == IF v[1] = "bool" THEN (IF v[2] THEN 1 ELSE 0) ELSE v[2]
RECURSIVE PyEq(_, _)
PyEq(a, b) ==
    IF IsNumber(a) /\ IsNumber(b) THEN NumberOf(a) = NumberOf(b)
    ELSE IF a[1] # b[1] THEN FALSE
    ELSE IF a[1] = "tuple"
         THEN /\ Len(a[2]) = Len(b[2])
              /\ \A i \in 1..Len(a[2]) : PyEq(a[2][i], b[2][i])
    ELSE a = b

\* d[key] = val on an insertion-ordered dict, kept as a sequence of pairs:
\* an equal key keeps its place and its first key object, the value is replaced.
DictSetItem(pairs, key, val) ==
    IF \E i \in 1..Len(pairs) : PyEq(pairs[i][1], key)
    THEN [i \in 1..Len(pairs) |->
            IF PyEq(pairs[i][1], key) THEN <<pairs[i][1], val>> ELSE pairs[i]]
    ELSE Append(pairs, <<key, val>>)

\* s.add(elem): an equal element is already there.
SetAdd(elems, elem) ==
    IF \E x \in elems : PyEq(x, elem) THEN elems ELSE elems \cup {elem}

(***************************************************************************)
(* Expression nodes: <<kind, payload>>.                                    *)
(*   Constant  payload is the Python value of the literal                  *)
(*   Dict      payload is the sequence of <<key node, value node>>; the    *)
(*             key node of an unpacking entry is Absent (Python's None)    *)
(*   List, Tuple, Set   payload is the sequence of element nodes          *)
(*   Name      payload is the identifier (text)                            *)
(*   Other     any other expression; payload is its source text            *)
(*   Deep      an expression nested beyond the interpreter's recursion     *)
(*             limit: ast.parse builds it, ast.unparse cannot walk it      *)
(* Absent stands for Python's None where the tree holds no node.           *)
(***************************************************************************)
Constant(v) == <<"Constant", v>>
Name(id) == <<"Name", id>>
Other(src) == <<"Other", src>>
Deep == <<"Deep", 0>>
Absent == <<"Absent", 0>>
DictNode(pairs) == <<"Dict", pairs>>
ListNode(elts) == <<"List", elts>>
TupleNode(elts) == <<"Tuple", elts>>
SetNode(elts) == <<"Set", elts>>

\* -operand, the operand an int constant: ast.UnaryOp with ast.USub.
UnaryOp(operand) == <<"UnaryOp", operand>>

\* str(n) of a natural number.
Digits == <<"0", "1", "2", "3", "4", "5", "6", "7", "8", "9">>
RECURSIVE IntText(_)
IntText(n) ==
    IF n < 10 THEN <<Digits[n + 1]>> ELSE IntText(n \div 10) \o <<Digits[(n % 10) + 1]>>

\* ast.unparse(node): the source text of an expression.  Handed None (the
\* key of an unpacking entry) it raises AttributeError, and on an expression
\* nested too deep RecursionError.  Name and Other carry their source text;
\* the displays are never handed to it by parser.py.
ast_unparse(n) ==
    CASE n[1] = "Other" -> Text(n[2])
      [] n[1] = "Name" -> Text(n[2])
      [] n[1] = "UnaryOp" -> Text(<<"-">> \o IntText(n[2][2][2]))
      [] n[1] = "Deep" -> Raise("RecursionError")
      [] OTHER -> Raise("AttributeError")

_unparse_with_fallback(n) ==
    IF IsRaise(ast_unparse(n)) THEN PyStr("<unparse_error>") ELSE ast_unparse(n)

RECURSIVE parse_value(_)
_safe_parse(n, fallback) ==
    IF IsRaise(parse_value(n)) THEN PyStr(fallback) ELSE parse_value(n)

\* key, val of one (k, v) of zip(node.keys, node.values).
DictEntry(pair) ==
    << _safe_parse(pair[1], "<parse_error_key>"),
       _safe_parse(pair[2], "<parse_error_val>") >>

\* result_dict[key] = val for each pair in turn; an unhashable key raises.
RECURSIVE DictLoop(_, _, _)
DictLoop(pairs, i, result_dict) ==
    IF i > Len(pairs) THEN <<"dict", result_dict>>
    ELSE LET key == DictEntry(pairs[i])[1]
             val == DictEntry(pairs[i])[2]
         IN  IF ~Hashable(key) THEN Raise("TypeError")
             ELSE DictLoop(pairs, i + 1, DictSetItem(result_dict, key, val))

\* {f(elem) for elem in elts}; an unhashable element raises.
RECURSIVE SetLoop(_, _, _)
SetLoop(elts, i, result_set) ==
    IF i > Len(elts) THEN <<"set", result_set>>
    ELSE LET elem == _safe_parse(elts[i], "<parse_error_elem>")
         IN  IF ~Hashable(elem) THEN Raise("TypeError")
             ELSE SetLoop(elts, i + 1, SetAdd(result_set, elem))

ParsedElts(elts) ==
    [i \in 1..Len(elts) |-> _safe_parse(elts[i], "<parse_error_elem>")]

parse_value(n) ==
    CASE n[1] = "Constant" -> n[2]
      [] n[1] = "Dict" -> DictLoop(n[2], 1, <<>>)
      [] n[1] = "List" -> <<"list", ParsedElts(n[2])>>
      [] n[1] = "Tuple" -> <<"tuple", ParsedElts(n[2])>>
      [] n[1] = "Set" -> SetLoop(n[2], 1, {})
      [] n[1] = "Name" ->
            IF n[2] = <<"True">> THEN PyBool(TRUE)
            ELSE IF n[2] = <<"False">> THEN PyBool(FALSE)
            ELSE IF n[2] = <<"None">> THEN PyNone
            ELSE Text(n[2])
      [] OTHER -> _unparse_with_fallback(n)

(***************************************************************************)
(* _extract_arguments.  An ast.arguments is the record                     *)
(*   [posonlyargs, args, kwonlyargs : sequences of ast.arg,                *)
(*    defaults : the default expressions of the trailing positional        *)
(*               parameters, positional-only ones included,                *)
(*    kw_defaults : one entry per keyword-only parameter, Absent for none, *)
(*    vararg, kwarg : an ast.arg or Absent]                                *)
(* and an ast.arg is <<"arg", name, annotation node or Absent>>, the name  *)
(* a single fragment.                                                      *)
(***************************************************************************)
Arg(name, annotation) == <<"arg", name, annotation>>
arg_of(a) == a[2]
annotation_of(a) == a[3]

\* {'name': arg.arg, 'annotation': ...}: the annotation's source text, None
\* without one, "<annotation_error>" when it cannot be rendered.
ArgInfo(a) ==
    [name |-> PyStr(arg_of(a)),
     annotation |->
        IF annotation_of(a) = Absent THEN PyNone
        ELSE IF IsRaise(ast_unparse(annotation_of(a))) THEN PyStr("<annotation_error>")
        ELSE ast_unparse(annotation_of(a))]

\* seq[index] with Python's indexing: 0-based, negative from the end.
InRange(seq, index) == -Len(seq) <= index /\ index < Len(seq)
PyItem(seq, index) == IF index < 0 THEN seq[Len(seq) + index + 1] ELSE seq[index + 1]

defaults_start(args) == Len(args.args) - Len(args.defaults)

\* The loop over args.defaults inside its try: an index outside args.args
\* raises IndexError, which ends the loop and keeps what was appended.
RECURSIVE DefaultsLoop(_, _, _)
DefaultsLoop(args, i, out) ==
    IF i >= Len(args.defaults) THEN out
    ELSE IF ~InRange(args.args, defaults_start(args) + i) THEN out
    ELSE DefaultsLoop(args, i + 1,
            Append(out, [arg |-> PyStr(arg_of(PyItem(args.args, defaults_start(args) + i))),
                         value |-> _safe_parse(args.defaults[i + 1],
                                               "<default_parse_error>")]))

KwDefault(default) ==
    IF default = Absent THEN PyNone ELSE _safe_parse(default, "<kw_default_error>")

_extract_arguments(args) ==
    [args |-> [i \in 1..Len(args.args) |-> ArgInfo(args.args[i])],
     defaults |-> DefaultsLoop(args, 0, <<>>),
     kwonly_args |-> [i \in 1..Len(args.kwonlyargs) |-> ArgInfo(args.kwonlyargs[i])],
     kwonly_defaults |-> [i \in 1..Len(args.kw_defaults) |-> KwDefault(args.kw_defaults[i])],
     vararg |-> IF args.vararg = Absent THEN PyNone ELSE PyStr(arg_of(args.vararg)),
     kwarg |-> IF args.kwarg = Absent THEN PyNone ELSE PyStr(arg_of(args.kwarg))]

(***************************************************************************)
(* extract_class_info and _process_class_item.  A statement is             *)
(* <<kind, payload>>:                                                      *)
(*   ClassDef     [name, bases, decorator_list, body]                      *)
(*   Assign       [targets, value]                                         *)
(*   AnnAssign    [target, annotation, value] (value Absent without one)   *)
(*   FunctionDef  [name, decorator_list, args, returns, body]              *)
(*   Expr         an expression statement: the expression node             *)
(*   Pass         any statement the extraction does not look at            *)
(***************************************************************************)
ClassDef(name, bases, decorator_list, body) ==
    <<"ClassDef", [name |-> name, bases |-> bases,
                   decorator_list |-> decorator_list, body |-> body]>>
Assign(targets, val) == <<"Assign", [targets |-> targets, value |-> val]>>
AnnAssign(target, annotation, val) ==
    <<"AnnAssign", [target |-> target, annotation |-> annotation, value |-> val]>>
FunctionDef(name, decorator_list, args, returns, body) ==
    <<"FunctionDef", [name |-> name, decorator_list |-> decorator_list,
                      args |-> args, returns |-> returns, body |-> body]>>
Expr(e) == <<"Expr", e>>
Pass == <<"Pass", 0>>

\* str(exception), as the messages embed it.
StrOf(exc) ==
    CASE exc[2] = "TypeError" -> "unhashable type: 'list'"
      [] exc[2] = "RecursionError" -> "maximum recursion depth exceeded"
      [] OTHER -> "'NoneType' object has no attribute '_fields'"

Message(fragments) == Text(fragments)

\* ast.get_docstring: the string literal that opens the body, else None.
get_docstring(body) ==
    IF /\ Len(body) > 0
       /\ body[1][1] = "Expr"
       /\ body[1][2][1] = "Constant"
       /\ body[1][2][2][1] = "str"
    THEN body[1][2][2]
    ELSE PyNone

\* The loop over node.bases: a base that renders is appended to 'bases', one
\* that does not leaves a message in 'parsing_errors' and is skipped.
RECURSIVE BasesLoop(_, _, _, _)
BasesLoop(name, bases, i, info) ==
    IF i > Len(bases) THEN info
    ELSE LET base_str == ast_unparse(bases[i])
         IN  BasesLoop(name, bases, i + 1,
                IF IsRaise(base_str)
                THEN [info EXCEPT !.parsing_errors =
                        Append(@, Message(<<"Error parsing base class in ">> \o name
                                          \o <<": ", StrOf(base_str)>>))]
                ELSE [info EXCEPT !.bases = Append(@, base_str)])

Decorators(decorator_list) ==
    [i \in 1..Len(decorator_list) |-> _unparse_with_fallback(decorator_list[i])]

\* The FunctionDef branch of _process_class_item: the method's record and
\* the messages it leaves in 'parsing_errors'.
ReturnType(item) ==
    IF item.returns = Absent THEN PyNone
    ELSE IF IsRaise(ast_unparse(item.returns)) THEN PyStr("<return_type_error>")
    ELSE ast_unparse(item.returns)

MethodInfo(item) ==
    [name |-> Text(item.name),
     decorators |-> Decorators(item.decorator_list),
     docstring |-> get_docstring(item.body),
     args |-> _extract_arguments(item.args),
     return_type |-> ReturnType(item)]

MethodErrors(item) ==
    IF item.returns # Absent /\ IsRaise(ast_unparse(item.returns))
    THEN << Message(<<"Return type error in method ">> \o item.name
                    \o <<": ", StrOf(ast_unparse(item.returns))>>) >>
    ELSE <<>>

\* The loop over item.targets: every Name target is assigned the value.
RECURSIVE TargetsLoop(_, _, _, _)
TargetsLoop(targets, val, i, attributes) ==
    IF i > Len(targets) THEN attributes
    ELSE TargetsLoop(targets, val, i + 1,
            IF targets[i][1] = "Name"
            THEN DictSetItem(attributes, Text(targets[i][2]), val)
            ELSE attributes)

\* Whether _process_class_item raises on the item: parse_value is called
\* outside any try, for the first Name target of an Assign and for the Name
\* target of an AnnAssign that has a value.
ItemRaises(item) ==
    CASE item[1] = "Assign" ->
            /\ \E i \in 1..Len(item[2].targets) : item[2].targets[i][1] = "Name"
            /\ IsRaise(parse_value(item[2].value))
      [] item[1] = "AnnAssign" ->
            /\ item[2].value # Absent
            /\ item[2].target[1] = "Name"
            /\ IsRaise(parse_value(item[2].value))
      [] OTHER -> FALSE

\* _process_class_item on an item it does not raise on.
_process_class_item(class_name, item, info) ==
    CASE item[1] = "Assign" ->
            [info EXCEPT !.attributes =
                TargetsLoop(item[2].targets, parse_value(item[2].value), 1, @)]
      [] item[1] = "AnnAssign" /\ item[2].value # Absent
                               /\ item[2].target[1] = "Name" ->
            LET attr_type == ast_unparse(item[2].annotation)
            IN  [info EXCEPT
                    !.attributes = DictSetItem(@, Text(item[2].target[2]),
                        <<"dict", << <<PyStr("value"), parse_value(item[2].value)>>,
                                     <<PyStr("type"),
                                       IF IsRaise(attr_type)
                                       THEN PyStr("<annotation_error>")
                                       ELSE attr_type>> >> >>),
                    !.parsing_errors =
                        IF IsRaise(attr_type)
                        THEN Append(@, Message(<<"Annotation error in attribute ">>
                                               \o item[2].target[2]
                                               \o <<": ", StrOf(attr_type)>>))
                        ELSE @]
      [] item[1] = "FunctionDef" ->
            [info EXCEPT
                !.methods = Append(@, MethodInfo(item[2])),
                !.parsing_errors = @ \o MethodErrors(item[2])]
      [] OTHER -> info

\* The loop over node.body: an item that raises leaves one message.
RECURSIVE BodyLoop(_, _, _, _)
BodyLoop(name, body, i, info) ==
    IF i > Len(body) THEN info
    ELSE BodyLoop(name, body, i + 1,
            IF ItemRaises(body[i])
            THEN [info EXCEPT !.parsing_errors =
                    Append(@, Message(<<"Error processing item in class ">> \o name
                                      \o <<": ", StrOf(parse_value(body[i][2].value))>>))]
            ELSE _process_class_item(name, body[i], info))

extract_class_info(n) ==
    LET info == [name |-> Text(n[2].name),
                       bases |-> <<>>,
                       docstring |-> get_docstring(n[2].body),
                       attributes |-> <<>>,
                       methods |-> <<>>,
                       decorators |-> Decorators(n[2].decorator_list),
                       parsing_errors |-> <<>>]
    IN  BodyLoop(n[2].name, n[2].body, 1,
                 BasesLoop(n[2].name, n[2].bases, 1, info))

(***************************************************************************)
(* PythonFolderParser: parse_file and scan_folders, and parse_folders.     *)
(***************************************************************************)
\* needle in hay, on text.
Contains(hay, needle) ==
    \E i \in 1..(Len(hay) - Len(needle) + 1) :
        SubSeq(hay, i, i + Len(needle) - 1) = needle

\* str(Path(p)): pathlib drops a leading "./".
PathStr(p) == IF Len(p) > 1 /\ p[1] = "./" THEN Tail(p) ELSE p

\* str(python_file) of a file that rglob found under a root.
FilePath(root, name) == Text(PathStr(root) \o <<"/", name>>)

\* d.get(key, default) on a dict kept as pairs.
DictGet(pairs, key, default) ==
    IF \E i \in 1..Len(pairs) : PyEq(pairs[i][1], key)
    THEN pairs[CHOOSE i \in 1..Len(pairs) : PyEq(pairs[i][1], key)][2]
    ELSE default

\* The error entries: {'folder', 'error'} and {'file', 'error'}.
FolderError(folder, msg) ==
    <<"dict", << <<PyStr("folder"), folder>>, <<PyStr("error"), msg>> >> >>
FileError(file, msg) ==
    <<"dict", << <<PyStr("file"), file>>, <<PyStr("error"), msg>> >> >>

\* A walk that stays at the top level of the module.
Children_none(stmt) == <<>>

\* ast.walk: breadth first from the module's statements; the class
\* definitions among the nodes, in the order the walk yields them.
Children(stmt) ==
    IF stmt[1] \in {"ClassDef", "FunctionDef"} THEN stmt[2].body ELSE <<>>
RECURSIVE ast_walk(_, _)
ast_walk(todo, classes) ==
    IF todo = <<>> THEN classes
    ELSE ast_walk(Tail(todo) \o Children(Head(todo)),
                  IF Head(todo)[1] = "ClassDef" THEN Append(classes, Head(todo))
                  ELSE classes)

NodeBaseMarker == <<"Node", "Base">>
SyntaxErrorMarker == <<"Syntax", " error">>

\* "NodeBase" == base: the marker compared instead of searched for.
InheritsNodeBase_exact(info) ==
    \E i \in 1..Len(info.bases) : info.bases[i][2] = NodeBaseMarker

\* any("NodeBase" in base for base in class_info['bases'])
InheritsNodeBase(info) ==
    \E i \in 1..Len(info.bases) :
        Contains(info.bases[i][2], NodeBaseMarker)

\* class_info['file'] = str(file_path)
WithFile(info, file) ==
    [f \in DOMAIN info \cup {"file"} |->
        IF f = "file" THEN file ELSE info[f]]

\* The loop of parse_file over the walked class definitions.
\* extract_class_info returns for every class definition, having caught
\* every exception itself, so the except branch of the loop is never taken
\* and the loop leaves results['errors'] alone.
RECURSIVE ClassesLoop(_, _, _, _)
ClassesLoop(nodes, i, file, classes) ==
    IF i > Len(nodes) THEN classes
    ELSE ClassesLoop(nodes, i + 1, file,
            IF InheritsNodeBase(extract_class_info(nodes[i]))
            THEN Append(classes, WithFile(extract_class_info(nodes[i]), file))
            ELSE classes)

\* The merge of one file's errors into the aggregate: an entry whose
\* message contains "Syntax error" is logged and skipped.
SkippedOnMerge(err) ==
    Contains(DictGet(err[2], PyStr("error"), PyStr(""))[2], SyntaxErrorMarker)
RECURSIVE MergeErrors(_, _, _)
MergeErrors(errs, i, errors) ==
    IF i > Len(errs) THEN errors
    ELSE MergeErrors(errs, i + 1,
            IF SkippedOnMerge(errs[i]) THEN errors ELSE Append(errors, errs[i]))

(***************************************************************************)
(* json.dumps.  The records of the model as the Python dicts they are,     *)
(* and the JSON document of a Python value: <<"string", text>>,            *)
(* <<"number", n>>, <<"true", 0>>, <<"false", 0>>, <<"null", 0>>,          *)
(* <<"array", items>>, <<"object", <<key text, item>> pairs>>.             *)
(***************************************************************************)
List(items) == <<"list", items>>
Dict(pairs) == <<"dict", pairs>>

ArgInfoValue(a) ==
    Dict(<< <<PyStr("name"), a.name>>, <<PyStr("annotation"), a.annotation>> >>)
DefaultValue(d) ==
    Dict(<< <<PyStr("arg"), d.arg>>, <<PyStr("value"), d.value>> >>)
ArgumentsValue(a) ==
    Dict(<< <<PyStr("args"), List([i \in 1..Len(a.args) |-> ArgInfoValue(a.args[i])])>>,
            <<PyStr("defaults"),
              List([i \in 1..Len(a.defaults) |-> DefaultValue(a.defaults[i])])>>,
            <<PyStr("kwonly_args"),
              List([i \in 1..Len(a.kwonly_args) |-> ArgInfoValue(a.kwonly_args[i])])>>,
            <<PyStr("kwonly_defaults"), List(a.kwonly_defaults)>>,
            <<PyStr("vararg"), a.vararg>>,
            <<PyStr("kwarg"), a.kwarg>> >>)
MethodValue(m) ==
    Dict(<< <<PyStr("name"), m.name>>,
            <<PyStr("decorators"), List(m.decorators)>>,
            <<PyStr("docstring"), m.docstring>>,
            <<PyStr("args"), ArgumentsValue(m.args)>>,
            <<PyStr("return_type"), m.return_type>> >>)
ClassValue(c) ==
    Dict(<< <<PyStr("name"), c.name>>,
            <<PyStr("bases"), List(c.bases)>>,
            <<PyStr("docstring"), c.docstring>>,
            <<PyStr("attributes"), Dict(c.attributes)>>,
            <<PyStr("methods"),
              List([i \in 1..Len(c.methods) |-> MethodValue(c.methods[i])])>>,
            <<PyStr("decorators"), List(c.decorators)>>,
            <<PyStr("parsing_errors"), List(c.parsing_errors)>>,
            <<PyStr("file"), c.file>> >>)
ResultsValue(r) ==
    Dict(<< <<PyStr("scanned_folders"),
              List([i \in 1..Len(r.scanned_folders) |-> Text(r.scanned_folders[i])])>>,
            <<PyStr("files"), List(r.files)>>,
            <<PyStr("classes"),
              List([i \in 1..Len(r.classes) |-> ClassValue(r.classes[i])])>>,
            <<PyStr("errors"), List(r.errors)>> >>)

\* The encoder's TypeError: bytes and sets have no JSON form, and a dict key
\* must be str, int, float, bool or None.
RECURSIVE Serializable(_)
Serializable(v) ==
    CASE v[1] \in {"str", "int", "bool", "none"} -> TRUE
      [] v[1] \in {"list", "tuple"} -> \A i \in 1..Len(v[2]) : Serializable(v[2][i])
      [] v[1] = "dict" ->
            \A i \in 1..Len(v[2]) :
                /\ v[2][i][1][1] \in {"str", "int", "bool", "none"}
                /\ Serializable(v[2][i][2])
      [] OTHER -> FALSE

\* A dict key as the JSON object's key.
KeyText(k) ==
    CASE k[1] = "str" -> k[2]
      [] k[1] = "int" -> IntText(k[2])
      [] k[1] = "bool" -> IF k[2] THEN <<"true">> ELSE <<"false">>
      [] OTHER -> <<"null">>

RECURSIVE Encode(_)
Encode(v) ==
    CASE v[1] = "str" -> <<"string", v[2]>>
      [] v[1] = "int" -> <<"number", v[2]>>
      [] v[1] = "bool" -> IF v[2] THEN <<"true", 0>> ELSE <<"false", 0>>
      [] v[1] = "none" -> <<"null", 0>>
      [] v[1] \in {"list", "tuple"} ->
            <<"array", [i \in 1..Len(v[2]) |-> Encode(v[2][i])]>>
      [] OTHER ->
            <<"object", [i \in 1..Len(v[2]) |->
                            <<KeyText(v[2][i][1]), Encode(v[2][i][2])>>]>>

json_dumps(v) == IF Serializable(v) THEN Encode(v) ELSE Raise("TypeError")

(***************************************************************************)
(* The inputs.                                                             *)
(***************************************************************************)
Unset == <<"unset", 0>>

SeqsUpTo(S, k) == UNION { [1..m -> S] : m \in 0..k }
Injective(seq) == \A i, j \in 1..Len(seq) : i # j => seq[i] # seq[j]

\* --- expressions for parse_value
Atoms ==
    { Constant(PyInt(1)), Constant(PyBool(TRUE)), Constant(PyStr("a")),
      Constant(PyBytes("x")), Name(<<"a">>), Other(<<"f(x)">>),
      UnaryOp(Constant(PyInt(1))) }

\* Displays of at most MaxElts entries over the atoms (a Dict key may also
\* be the Absent of an unpacking entry).
PairValues == { Constant(PyInt(1)), Constant(PyBytes("x")), Other(<<"f(x)">>) }
FlatNodes ==
    LET elts == SeqsUpTo(Atoms, MaxElts)
        pairs == SeqsUpTo((Atoms \cup {Absent}) \X PairValues, MaxElts)
    IN  { ListNode(e) : e \in elts } \cup { TupleNode(e) : e \in elts }
        \cup { SetNode(e) : e \in elts } \cup { DictNode(p) : p \in pairs }

\* The displays holding a node of X as one element, key or value.
Sibling == Constant(PyInt(1))
SiblingKey == Constant(PyBool(TRUE))
Wrap(X) ==
    LET one == UNION { { <<<<Sibling, n>>>>, <<<<Absent, n>>>>, <<<<n, Sibling>>>> } :
                       n \in X }
        two == UNION { { <<<<Sibling, n>>, <<SiblingKey, Sibling>>>>,
                         <<<<Sibling, Sibling>>, <<SiblingKey, n>>>> } : n \in X }
    IN  UNION { { ListNode(<<n>>), ListNode(<<Sibling, n>>), TupleNode(<<n>>),
                  SetNode(<<n>>), SetNode(<<n, Sibling>>) } : n \in X }
        \cup { DictNode(p) : p \in one \cup two }

RECURSIVE Nested(_)
Nested(d) ==
    IF d = 0 THEN Atoms \cup { ListNode(<<>>), Deep }
    ELSE Nested(d - 1) \cup Wrap(Nested(d - 1))

\* Mappings of two pairs whose keys and values may each be what does not
\* reconstruct: the key [] and the value {[]}.
FaultyPairs ==
    { Constant(PyStr("a")), Constant(PyInt(1)), ListNode(<<>>) }
        \X { Constant(PyInt(1)), SetNode(<<ListNode(<<>>)>>) }
FaultyNodes == { DictNode(<<p, q>>) : p \in FaultyPairs, q \in FaultyPairs }

Nodes == FlatNodes \cup Nested(MaxWraps) \cup FaultyNodes

\* --- signatures for _extract_arguments
ArgNames == <<"self", "text", "operation", "mode">>
PosOnlyNames == <<"p", "q", "r">>
KwNames == <<"key", "flag", "extra">>
Annotations == { Absent, Name(<<"str">>), Deep }
\* The annotations of n parameters: the last two vary, the others have none.
AnnotationSeqs(n) ==
    { ann \in [1..n -> Annotations] : \A i \in 1..n : i < n - 1 => ann[i] = Absent }
\* {[]: 1}: a default whose reconstruction raises.
Unhashable == DictNode(<< <<ListNode(<<>>), Constant(PyInt(1))>> >>)
DefaultNodes == { Constant(PyStr("upper")), Unhashable }
\* What a keyword-only parameter has for a default: nothing, a string, None,
\* an expression whose reconstruction raises.
KwDefaultNodes == DefaultNodes \cup { Absent, Constant(PyNone) }

Arguments(posonlyargs, args, defaults, kwonlyargs, kw_defaults, vararg, kwarg) ==
    [posonlyargs |-> posonlyargs, args |-> args, defaults |-> defaults,
     kwonlyargs |-> kwonlyargs, kw_defaults |-> kw_defaults,
     vararg |-> vararg, kwarg |-> kwarg]

\* The signature with np positional-only, n positional and nk keyword-only
\* parameters, and *args, **kwargs when star.
Signature(np, n, nk, ann, d, kd, star) ==
    Arguments([i \in 1..np |-> Arg(PosOnlyNames[i], Absent)],
              [i \in 1..n |-> Arg(ArgNames[i], ann[i])],
              d,
              [i \in 1..nk |-> Arg(KwNames[i], Absent)],
              kd,
              IF star THEN Arg("args", Absent) ELSE Absent,
              IF star THEN Arg("kwargs", Absent) ELSE Absent)

EmptyArguments == Arguments(<<>>, <<>>, <<>>, <<>>, <<>>, Absent, Absent)
NoArguments == _extract_arguments(EmptyArguments)

\* --- class definitions for extract_class_info
NodeBase == Name(NodeBaseMarker)
SelfArg == Arg("self", Absent)
Method(name, args, returns) == FunctionDef(name, <<>>, args, returns, <<Pass>>)
BaseExprs == { NodeBase, Other(<<"parser", ".", "Node", "Base">>), Deep }
DecoratorLists == { <<>>, <<Name(<<"register">>)>>, <<Deep>> }
Items ==
    { Expr(Constant(PyStr("doc"))),
      Pass,
      Assign(<<Name(<<"label">>)>>, Constant(PyStr("Calc"))),
      Assign(<<Name(<<"params">>)>>, Unhashable),
      Assign(<<Other(<<"cls", ".", "x">>), Name(<<"label">>)>>, Constant(PyInt(1))),
      AnnAssign(Name(<<"params">>), Name(<<"dict">>), DictNode(<<>>)),
      AnnAssign(Name(<<"params">>), Deep, Constant(PyInt(1))),
      AnnAssign(Name(<<"params">>), Name(<<"dict">>), Unhashable),
      AnnAssign(Name(<<"params">>), Name(<<"dict">>), Absent),
      Method(<<"execute">>,
             Arguments(<<>>, <<SelfArg, Arg("a", Name(<<"float">>))>>, <<>>,
                       <<>>, <<>>, Absent, Absent),
             Name(<<"float">>)),
      Method(<<"run">>,
             Arguments(<<>>, <<SelfArg, Arg("a", Deep)>>, <<Unhashable>>,
                       <<>>, <<>>, Absent, Absent),
             Deep),
      FunctionDef(<<"helper">>, <<Deep>>,
                  Arguments(<<>>, <<SelfArg>>, <<>>, <<Arg("k", Absent)>>, <<Deep>>,
                            Absent, Absent),
                  Absent, <<Expr(Constant(PyStr("doc")))>>) }

\* Every class header over a short body, and every body under two headers.
ClassDefs ==
    { ClassDef(<<"Calculator">>, bases, decorator_list, body) :
        bases \in SeqsUpTo(BaseExprs, MaxBases),
        decorator_list \in DecoratorLists,
        body \in { <<>>, <<Expr(Constant(PyStr("doc")))>> } }
    \cup
    { ClassDef(<<"Calculator">>, bases, <<>>, body) :
        bases \in { <<NodeBase>>, <<Deep>> },
        body \in SeqsUpTo(Items, MaxItems) }

EmptyClass == ClassDef(<<"">>, <<>>, <<>>, <<>>)
NoClassInfo == extract_class_info(EmptyClass)

\* --- the file system for scan_folders
TestsRoot == <<"./", "tests">>
DemoRoot == <<"Syntax", " error", " demos">>
MissingRoot == <<"missing">>
ExistingRoots == { TestsRoot, DemoRoot }
Roots == ExistingRoots \cup { MissingRoot }

FilesUnder(root) ==
    IF root = TestsRoot
    THEN { "text_transformer.py", "without_nodebase.py", "nested.py", "broken.py", "nul.py" }
    ELSE { "undecodable.py", "blob.py" }

\* What reading and parsing the file comes to.
FileKind(name) ==
    CASE name = "undecodable.py" -> "UnicodeDecodeError"
      [] name = "broken.py" -> "SyntaxError"
      [] name = "nul.py" -> "ValueError"
      [] OTHER -> "module"

ReadErrorText == "'utf-8' codec can't decode byte 0xff in position 0: invalid start byte"
SyntaxErrorText == "invalid syntax (<unknown>, line 1)"
ParseErrorText == "source code string cannot contain null bytes"

\* class TextTransformer(NodeBase) of tests/text_transformer.py.
TextTransformer ==
    ClassDef(<<"TextTransformer">>, <<NodeBase>>, <<>>,
        << Expr(Constant(PyStr("Transform text in various ways"))),
           Assign(<<Name(<<"label">>)>>, Constant(PyStr("TextTransformer"))),
           Method(<<"execute">>,
                  Arguments(<<>>,
                            <<SelfArg, Arg("text", Name(<<"str">>)),
                              Arg("operation", Name(<<"str">>))>>,
                            <<Constant(PyStr("upper"))>>, <<>>, <<>>, Absent, Absent),
                  Name(<<"str">>)),
           Method(<<"reverse">>,
                  Arguments(<<>>, <<SelfArg, Arg("text", Name(<<"str">>))>>,
                            <<>>, <<>>, <<>>, Absent, Absent),
                  Name(<<"str">>)) >>)

\* class RegularProcessor of tests/without_nodebase.py, in short, and a class whose
\* two bases each hold half of the marker.
RegularProcessor ==
    ClassDef(<<"RegularProcessor">>, <<>>, <<>>,
        << Assign(<<Name(<<"params">>)>>,
                  DictNode(<< <<Constant(PyStr("input_text")),
                                DictNode(<< <<Constant(PyStr("type")),
                                              Constant(PyStr("string"))>> >>)>> >>)) >>)
Plain == ClassDef(<<"Plain">>, <<Name(<<"Node">>), Name(<<"Base">>)>>, <<>>, <<Pass>>)

\* Classes below the top level: in a function, in another class.
Inner == ClassDef(<<"Inner">>, <<Other(<<"base", ".", "My", "Node", "Base", "Mixin">>)>>,
                  <<>>, <<Pass>>)
Empty == ClassDef(<<"Empty">>, <<NodeBase>>, <<>>, <<Pass>>)
Outer == ClassDef(<<"Outer">>, <<Name(<<"object">>)>>, <<>>, <<Empty>>)
Factory == FunctionDef(<<"factory">>, <<>>, EmptyArguments, Absent, <<Inner>>)
\* A top-level class after them, with an attribute that does not reconstruct.
Alpha ==
    ClassDef(<<"Alpha">>, <<NodeBase>>, <<>>,
        << Expr(Constant(PyStr("Alpha class with parameters."))),
           Assign(<<Name(<<"params">>)>>, Unhashable) >>)

\* A node class with a bytes attribute.
Blob ==
    ClassDef(<<"Blob">>, <<NodeBase>>, <<>>,
        << Assign(<<Name(<<"data">>)>>, Constant(PyBytes("x"))) >>)

\* ast.parse(content).body of the files that parse.
Tree(name) ==
    CASE name = "text_transformer.py" -> <<Pass, TextTransformer>>
      [] name = "without_nodebase.py" -> <<RegularProcessor, Plain>>
      [] name = "nested.py" -> <<Factory, Outer, Alpha>>
      [] name = "blob.py" -> <<Blob>>
      [] OTHER -> <<>>

Listings ==
    { f \in [ExistingRoots -> SeqsUpTo(UNION { FilesUnder(r) : r \in ExistingRoots }, MaxFiles)] :
        \A r \in ExistingRoots :
            /\ Injective(f[r])
            /\ \A i \in 1..Len(f[r]) : f[r][i] \in FilesUnder(r) }

\* What the walk of parse_file collects from each file that parses.
Walked ==
    [root \in ExistingRoots |->
        [name \in FilesUnder(root) |->
            ClassesLoop(ast_walk(Tree(name), <<>>), 1, FilePath(root, name), <<>>)]]

EmptyResults == [scanned_folders |-> <<>>, files |-> <<>>, classes |-> <<>>, errors |-> <<>>]
EmptyFileResults == [classes |-> <<>>, errors |-> <<>>]

(***************************************************************************)
(* The initial conditions: each specification draws its own input and      *)
(* leaves the other entry points' variables at rest.                       *)
(***************************************************************************)
ValueAtRest == node = Absent /\ value = Unset
ArgsAtRest == fargs = EmptyArguments /\ arguments = NoArguments
ClassAtRest == classdef = EmptyClass /\ class_info = NoClassInfo
ScanAtRest ==
    /\ base_paths = <<>>
    /\ listing = [r \in ExistingRoots |-> <<>>]
    /\ results = EmptyResults
    /\ ri = 1
    /\ fi = 1
    /\ file_results = EmptyFileResults
    /\ scanned = <<>>
    /\ output = Unset

(***************************************************************************)
(* SpecValue: parse_value called on an expression.                         *)
(***************************************************************************)
InitValue ==
    /\ pc = "ready"
    /\ node \in Nodes
    /\ value = Unset
    /\ ArgsAtRest /\ ClassAtRest /\ ScanAtRest

CallParseValue ==
    /\ pc = "ready"
    /\ value' = parse_value(node)
    /\ pc' = "returned"
    /\ UNCHANGED <<node, argsVars, classVars, scanVars>>

SpecValue == InitValue /\ [][CallParseValue]_vars

(***************************************************************************)
(* SpecArgs: _extract_arguments called on a signature.                     *)
(***************************************************************************)
InitArgs ==
    /\ pc = "ready"
    /\ \E np \in 0..MaxPosOnly, n \in 0..MaxArgs, nk \in 0..MaxKwOnly, star \in BOOLEAN :
         \E ann \in AnnotationSeqs(n), d \in SeqsUpTo(DefaultNodes, np + n),
            kd \in [1..nk -> KwDefaultNodes] :
                fargs = Signature(np, n, nk, ann, d, kd, star)
    /\ arguments = NoArguments
    /\ ValueAtRest /\ ClassAtRest /\ ScanAtRest

CallExtractArguments ==
    /\ pc = "ready"
    /\ arguments' = _extract_arguments(fargs)
    /\ pc' = "returned"
    /\ UNCHANGED <<fargs, valueVars, classVars, scanVars>>

SpecArgs == InitArgs /\ [][CallExtractArguments]_vars

(***************************************************************************)
(* SpecClass: extract_class_info called on a class definition.             *)
(***************************************************************************)
InitClass ==
    /\ pc = "ready"
    /\ classdef \in ClassDefs
    /\ class_info = NoClassInfo
    /\ ValueAtRest /\ ArgsAtRest /\ ScanAtRest

CallExtractClassInfo ==
    /\ pc = "ready"
    /\ class_info' = extract_class_info(classdef)
    /\ pc' = "returned"
    /\ UNCHANGED <<classdef, valueVars, argsVars, scanVars>>

SpecClass == InitClass /\ [][CallExtractClassInfo]_vars

(***************************************************************************)
(* Spec: parse_folders(base_paths).  scan_folders walks base_paths; for    *)
(* each file of an existing root parse_file reads, parses and walks, and   *)
(* scan_folders merges what it returned; parse_folders serialises.         *)
(*   pc: "scan" at the head of the loop over base_paths; "read", "parse"   *)
(*   and "walk" inside parse_file; "merge" back in scan_folders; "dumps"   *)
(*   when scan_folders has returned; "done" when parse_folders has ended.  *)
(***************************************************************************)
Init ==
    /\ pc = "scan"
    /\ base_paths \in SeqsUpTo(Roots, MaxRoots)
    /\ listing \in Listings
    /\ \A r \in ExistingRoots :
        (\A i \in 1..Len(base_paths) : base_paths[i] # r) => listing[r] = <<>>
    /\ results = [EmptyResults EXCEPT !.scanned_folders = base_paths]
    /\ ri = 1
    /\ fi = 1
    /\ file_results = EmptyFileResults
    /\ scanned = <<>>
    /\ output = Unset
    /\ ValueAtRest /\ ArgsAtRest /\ ClassAtRest

base_path == base_paths[ri]
python_file == FilePath(base_path, listing[base_path][fi])
FileName == listing[base_path][fi]

\* The missing root ending the loop over base_paths: break for continue.
SkipMissingRoot_break ==
    /\ pc = "scan"
    /\ ri <= Len(base_paths)
    /\ base_path \notin DOMAIN listing
    /\ results' = [results EXCEPT !.errors =
            Append(@, FolderError(Text(PathStr(base_path)),
                                  Text(<<"Folder does not exist: ">> \o base_path)))]
    /\ ri' = Len(base_paths) + 1
    /\ UNCHANGED <<pureVars, pc, base_paths, listing, fi, file_results, scanned, output>>

\* if not path.exists(): one error entry, and on to the next root.
SkipMissingRoot ==
    /\ pc = "scan"
    /\ ri <= Len(base_paths)
    /\ base_path \notin DOMAIN listing
    /\ results' = [results EXCEPT !.errors =
            Append(@, FolderError(Text(PathStr(base_path)),
                                  Text(<<"Folder does not exist: ">> \o base_path)))]
    /\ ri' = ri + 1
    /\ UNCHANGED <<pureVars, pc, base_paths, listing, fi, file_results, scanned, output>>

\* for python_file in path.rglob('*.py'): the first file, or none at all.
EnterRoot ==
    /\ pc = "scan"
    /\ ri <= Len(base_paths)
    /\ base_path \in DOMAIN listing
    /\ IF listing[base_path] = <<>>
       THEN ri' = ri + 1 /\ UNCHANGED <<pc, fi, file_results, scanned>>
       ELSE /\ pc' = "read"
            /\ fi' = 1
            /\ file_results' = EmptyFileResults
            /\ scanned' = Append(scanned, FilePath(base_path, listing[base_path][1]))
            /\ UNCHANGED ri
    /\ UNCHANGED <<pureVars, base_paths, listing, results, output>>

\* The read failure recorded and the parse attempted all the same.
ReadFile_continue ==
    /\ pc = "read"
    /\ IF FileKind(FileName) = "UnicodeDecodeError"
       THEN file_results' = [file_results EXCEPT !.errors =
                Append(@, FileError(python_file,
                    Text(<<"Error reading file ">> \o python_file[2]
                         \o <<": ", ReadErrorText>>)))]
       ELSE UNCHANGED file_results
    /\ pc' = "parse"
    /\ UNCHANGED <<pureVars, base_paths, listing, results, ri, fi, scanned, output>>

\* parse_file: open and read; a failure is one error entry and the return.
ReadFile ==
    /\ pc = "read"
    /\ IF FileKind(FileName) = "UnicodeDecodeError"
       THEN /\ file_results' = [file_results EXCEPT !.errors =
                    Append(@, FileError(python_file,
                        Text(<<"Error reading file ">> \o python_file[2]
                             \o <<": ", ReadErrorText>>)))]
            /\ pc' = "merge"
       ELSE pc' = "parse" /\ UNCHANGED file_results
    /\ UNCHANGED <<pureVars, base_paths, listing, results, ri, fi, scanned, output>>

\* parse_file: ast.parse; SyntaxError and any other exception are one error
\* entry each and the return.
ParseFile ==
    /\ pc = "parse"
    /\ IF FileKind(FileName) = "SyntaxError"
       THEN /\ file_results' = [file_results EXCEPT !.errors =
                    Append(@, FileError(python_file,
                        Text(<<"Syntax", " error", " in file ">> \o python_file[2]
                             \o <<": ", SyntaxErrorText>>)))]
            /\ pc' = "merge"
       ELSE IF FileKind(FileName) = "ValueError"
       THEN /\ file_results' = [file_results EXCEPT !.errors =
                    Append(@, FileError(python_file,
                        Text(<<"Error parsing AST in file ">> \o python_file[2]
                             \o <<": ", ParseErrorText>>)))]
            /\ pc' = "merge"
       ELSE pc' = "walk" /\ UNCHANGED file_results
    /\ UNCHANGED <<pureVars, base_paths, listing, results, ri, fi, scanned, output>>

\* parse_file: the walk over the tree, collecting the NodeBase classes.
WalkTree ==
    /\ pc = "walk"
    /\ file_results' = [file_results EXCEPT !.classes = @ \o Walked[base_path][FileName]]
    /\ pc' = "merge"
    /\ UNCHANGED <<pureVars, base_paths, listing, results, ri, fi, scanned, output>>

\* The merge without the test on file_results['classes'].
Merged_always(res, file, fres) ==
    [res EXCEPT
        !.files = Append(@, file),
        !.classes = @ \o fres.classes,
        !.errors = MergeErrors(fres.errors, 1, @)]

\* scan_folders: merge file_results, then the next file or the next root.
Merged(res, file, fres) ==
    [res EXCEPT
        !.files = IF fres.classes # <<>> THEN Append(@, file) ELSE @,
        !.classes = @ \o fres.classes,
        !.errors = MergeErrors(fres.errors, 1, @)]

MergeFile ==
    /\ pc = "merge"
    /\ results' = Merged(results, python_file, file_results)
    /\ IF fi < Len(listing[base_path])
       THEN /\ fi' = fi + 1
            /\ pc' = "read"
            /\ file_results' = EmptyFileResults
            /\ scanned' = Append(scanned, FilePath(base_path, listing[base_path][fi + 1]))
            /\ UNCHANGED ri
       ELSE /\ ri' = ri + 1
            /\ pc' = "scan"
            /\ UNCHANGED <<fi, file_results, scanned>>
    /\ UNCHANGED <<pureVars, base_paths, listing, output>>

\* scan_folders: return results.
ReturnResults ==
    /\ pc = "scan"
    /\ ri > Len(base_paths)
    /\ pc' = "dumps"
    /\ UNCHANGED <<pureVars, base_paths, listing, results, ri, fi, file_results, scanned, output>>

\* parse_folders: return json.dumps(results, indent=2).
Dumps ==
    /\ pc = "dumps"
    /\ output' = json_dumps(ResultsValue(results))
    /\ pc' = "done"
    /\ UNCHANGED <<pureVars, base_paths, listing, results, ri, fi, file_results, scanned>>

Next ==
    \/ SkipMissingRoot
    \/ EnterRoot
    \/ ReadFile
    \/ ParseFile
    \/ WalkTree
    \/ MergeFile
    \/ ReturnResults
    \/ Dumps

Spec == Init /\ [][Next]_vars

\* The program is sequential and runs to its end.
FairSpec == Spec /\ WF_vars(Next)

(***************************************************************************)
(* What Python evaluates a display of literals to: the reference the       *)
(* reconstruction is compared with.  It raises where Python raises.        *)
(***************************************************************************)
RECURSIVE literal_eval(_)
RECURSIVE EvalPairs(_, _, _)
EvalPairs(pairs, i, d) ==
    IF i > Len(pairs) THEN <<"dict", d>>
    ELSE LET k == literal_eval(pairs[i][1])
             v == literal_eval(pairs[i][2])
         IN  IF IsRaise(k) \/ IsRaise(v) \/ ~Hashable(k) THEN Raise("TypeError")
             ELSE EvalPairs(pairs, i + 1, DictSetItem(d, k, v))
RECURSIVE EvalSet(_, _, _)
EvalSet(elts, i, acc) ==
    IF i > Len(elts) THEN <<"set", acc>>
    ELSE LET e == literal_eval(elts[i])
         IN  IF IsRaise(e) \/ ~Hashable(e) THEN Raise("TypeError")
             ELSE EvalSet(elts, i + 1, SetAdd(acc, e))
EvalSeq(tag, elts) ==
    IF \E i \in 1..Len(elts) : IsRaise(literal_eval(elts[i])) THEN Raise("TypeError")
    ELSE <<tag, [i \in 1..Len(elts) |-> literal_eval(elts[i])]>>
literal_eval(n) ==
    CASE n[1] = "Constant" -> n[2]
      [] n[1] = "Dict" -> EvalPairs(n[2], 1, <<>>)
      [] n[1] = "List" -> EvalSeq("list", n[2])
      [] n[1] = "Tuple" -> EvalSeq("tuple", n[2])
      [] n[1] = "Set" -> EvalSet(n[2], 1, {})
      [] n[1] = "UnaryOp" -> PyInt(0 - n[2][2][2])
      [] OTHER -> Raise("ValueError")

IsDisplay(n) == n[1] \in {"Dict", "List", "Tuple", "Set"}
\* A number, string, boolean, None or bytes, as the source writes it.
IsScalarLiteral(n) == n[1] \in {"Constant", "UnaryOp"}
\* A display whose elements, keys and values are all scalar literals.
ScalarDisplay(n) ==
    /\ IsDisplay(n)
    /\ \A i \in 1..Len(n[2]) :
        IF n[1] = "Dict"
        THEN IsScalarLiteral(n[2][i][1]) /\ IsScalarLiteral(n[2][i][2])
        ELSE IsScalarLiteral(n[2][i])
\* A mapping of scalar keys to scalars and displays of scalars, like the
\* params of the node classes.
NestedMapping(n) ==
    /\ n[1] = "Dict"
    /\ \A i \in 1..Len(n[2]) :
        /\ IsScalarLiteral(n[2][i][1])
        /\ IsScalarLiteral(n[2][i][2]) \/ ScalarDisplay(n[2][i][2])

(***************************************************************************)
(* The claims.                                                             *)
(***************************************************************************)

\* C1: parse_value is total: for every expression node it returns a value
\* or a placeholder string and never raises, also when a set element or a
\* mapping key reconstructs to a non-hashable value.
C1_ParseValueTotal == pc = "returned" => ~IsRaise(value)

\* The sub-steps of extract_class_info that fail on a class definition:
\* a base, a decorator or an annotation that does not render, a value or a
\* default that does not reconstruct.
Count(S) == Cardinality(S)
FailingRenders(exprs) ==
    Count({ i \in 1..Len(exprs) : exprs[i] # Absent /\ IsRaise(ast_unparse(exprs[i])) })
FailingValues(exprs) ==
    Count({ i \in 1..Len(exprs) : exprs[i] # Absent /\ IsRaise(parse_value(exprs[i])) })
FailingInSignature(a) ==
    FailingRenders([i \in 1..Len(a.args) |-> annotation_of(a.args[i])])
    + FailingValues(a.defaults) + FailingValues(a.kw_defaults)
FailingInItem(item) ==
    CASE item[1] = "Assign" -> FailingValues(<<item[2].value>>)
      [] item[1] = "AnnAssign" ->
            FailingRenders(<<item[2].annotation>>) + FailingValues(<<item[2].value>>)
      [] item[1] = "FunctionDef" ->
            FailingRenders(item[2].decorator_list) + FailingRenders(<<item[2].returns>>)
            + FailingInSignature(item[2].args)
      [] OTHER -> 0
RECURSIVE FailingInBody(_, _)
FailingInBody(body, i) ==
    IF i > Len(body) THEN 0 ELSE FailingInItem(body[i]) + FailingInBody(body, i + 1)
FailingSubSteps(c) ==
    FailingRenders(c[2].bases) + FailingRenders(c[2].decorator_list)
    + FailingInBody(c[2].body, 1)

\* The names a class body assigns a value to.
AssignedNames(c) ==
    { Text(c[2].body[i][2].targets[j][2]) :
        <<i, j>> \in { ij \in (1..Len(c[2].body)) \X (1..2) :
            /\ c[2].body[ij[1]][1] = "Assign"
            /\ ij[2] <= Len(c[2].body[ij[1]][2].targets)
            /\ c[2].body[ij[1]][2].targets[ij[2]][1] = "Name" } }
    \cup
    { Text(c[2].body[i][2].target[2]) :
        i \in { k \in 1..Len(c[2].body) :
            /\ c[2].body[k][1] = "AnnAssign"
            /\ c[2].body[k][2].value # Absent
            /\ c[2].body[k][2].target[1] = "Name" } }
AttributeNames(info) == { info.attributes[i][1] : i \in 1..Len(info.attributes) }

\* C2: extract_class_info returns a record for every class definition, and
\* every sub-step that fails is recorded in the class's parsing_errors and
\* leaves a sentinel in the field it would have filled: parsing_errors has
\* an entry for each failing sub-step, every base has its entry in bases and
\* every assigned name its entry in attributes.
C2_FailuresRecordedAndReplaced ==
    pc = "returned" =>
        /\ Len(class_info.parsing_errors) >= FailingSubSteps(classdef)
        /\ Len(class_info.bases) = Len(classdef[2].bases)
        /\ AssignedNames(classdef) \subseteq AttributeNames(class_info)

\* C3: with n positional parameters and k <= n default expressions,
\* _extract_arguments returns exactly k defaults; entry i carries the name of
\* the positional parameter at index n-k+i and the reconstruction of default
\* expression i.
C3_DefaultAlignment ==
    LET positional == fargs.posonlyargs \o fargs.args
        n == Len(positional)
        k == Len(fargs.defaults)
    IN  (pc = "returned" /\ k <= n) =>
            /\ Len(arguments.defaults) = k
            /\ \A i \in 1..k :
                /\ arguments.defaults[i].arg = PyStr(arg_of(positional[n - k + i]))
                /\ arguments.defaults[i].value =
                        IF IsRaise(parse_value(fargs.defaults[i]))
                        THEN PyStr("<default_parse_error>")
                        ELSE parse_value(fargs.defaults[i])

\* The alignment as far as it holds: when no default belongs to a
\* positional-only parameter, entry i carries the name of args.args[n-k+i]
\* and the reconstruction of default expression i.
AlignmentOfListedParameters ==
    (pc = "returned" /\ Len(fargs.defaults) <= Len(fargs.args)) =>
        LET n == Len(fargs.args)
            k == Len(fargs.defaults)
        IN  /\ Len(arguments.defaults) = k
            /\ \A i \in 1..k :
                /\ arguments.defaults[i].arg = PyStr(arg_of(fargs.args[n - k + i]))
                /\ arguments.defaults[i].value =
                        IF IsRaise(parse_value(fargs.defaults[i]))
                        THEN PyStr("<default_parse_error>")
                        ELSE parse_value(fargs.defaults[i])

\* C10: for a mapping, list, tuple or set literal whose elements and keys are
\* all scalar literals, and for a mapping of such literals, parse_value
\* returns the value the literal evaluates to.
C10_RoundTrip ==
    (pc = "returned" /\ (ScalarDisplay(node) \/ NestedMapping(node))) =>
        value = literal_eval(node)

\* The round trip as far as it holds: when every scalar is a constant of the
\* syntax tree, which a negative number is not.
RECURSIVE Unsigned(_)
Unsigned(n) ==
    CASE n[1] = "UnaryOp" -> FALSE
      [] n[1] = "Dict" ->
            \A i \in 1..Len(n[2]) : Unsigned(n[2][i][1]) /\ Unsigned(n[2][i][2])
      [] n[1] \in {"List", "Tuple", "Set"} -> \A i \in 1..Len(n[2]) : Unsigned(n[2][i])
      [] OTHER -> TRUE
RoundTripOfConstants ==
    (/\ pc = "returned"
     /\ ScalarDisplay(node) \/ NestedMapping(node)
     /\ Unsigned(node)) =>
        value = literal_eval(node)

Range(seq) == { seq[i] : i \in 1..Len(seq) }
ScanReturned == pc \in {"dumps", "done"}

\* The texts of the bases of a class definition that render.
RenderedBases(c) ==
    { ast_unparse(c[2].bases[i])[2] :
        i \in { j \in 1..Len(c[2].bases) : ~IsRaise(ast_unparse(c[2].bases[j])) } }
HasMarker(c) == \E t \in RenderedBases(c) : Contains(t, NodeBaseMarker)
HasNoMembers(c) ==
    \A i \in 1..Len(c[2].body) : c[2].body[i][1] \notin {"Assign", "AnnAssign", "FunctionDef"}
\* The records of the output for a class of a file.
Records(c, file) ==
    { i \in 1..Len(results.classes) :
        results.classes[i].name = Text(c[2].name) /\ results.classes[i].file = file }
\* The class definitions of a file that parses, at any depth.
ClassesOf(name) ==
    IF FileKind(name) = "module" THEN Range(ast_walk(Tree(name), <<>>)) ELSE {}
\* The files the scan goes through: root and name.
FilesToScan ==
    { rn \in (Range(base_paths) \cap DOMAIN listing)
                \X UNION { FilesUnder(r) : r \in ExistingRoots } :
        rn[2] \in Range(listing[rn[1]]) }

\* C4: a class definition of a scanned file appears in the output if and
\* only if one of its rendered bases contains "NodeBase"; a matching class
\* without attributes and methods appears with those collections empty.
C4_NodeBaseFilter ==
    ScanReturned =>
        \A rn \in FilesToScan : \A c \in ClassesOf(rn[2]) :
            /\ Records(c, FilePath(rn[1], rn[2])) # {} <=> HasMarker(c)
            /\ HasNoMembers(c) =>
                \A i \in Records(c, FilePath(rn[1], rn[2])) :
                    /\ results.classes[i].attributes = <<>>
                    /\ results.classes[i].methods = <<>>

\* C4's case: nested.py and without_nodebase.py have been scanned; Alpha,
\* Empty and Inner, whose base only contains the marker, are in the output,
\* the classes of without_nodebase.py are not.
C4_Witness ==
    /\ ScanReturned
    /\ base_paths = <<TestsRoot>>
    /\ listing[TestsRoot] = <<"nested.py", "without_nodebase.py">>
    /\ Len(results.classes) = 3
    /\ \E i \in 1..3 :
        /\ results.classes[i].name = PyStr("Empty")
        /\ results.classes[i].attributes = <<>>
        /\ results.classes[i].methods = <<>>

\* C5: at every moment of the scan, each path in files is of a file that
\* parsed and has a matching class, and that class is in classes; a file
\* without matching classes and a file that fails to parse are not listed.
C5_FilesHaveClasses ==
    \A i \in 1..Len(results.files) :
        /\ \E rn \in FilesToScan :
            /\ results.files[i] = FilePath(rn[1], rn[2])
            /\ \E c \in ClassesOf(rn[2]) : HasMarker(c)
        /\ \E j \in 1..Len(results.classes) : results.classes[j].file = results.files[i]

\* C5's case: a file without matching classes and a file that does not parse
\* have been scanned and only the third file is listed.
C5_Witness ==
    /\ ScanReturned
    /\ FilePath(TestsRoot, "without_nodebase.py") \in Range(scanned)
    /\ FilePath(TestsRoot, "broken.py") \in Range(scanned)
    /\ results.files = <<FilePath(DemoRoot, "blob.py")>>

\* The files of the roots of base_paths from the i-th on, in scan order.
RECURSIVE ExpectedScan(_)
ExpectedScan(i) ==
    IF i > Len(base_paths) THEN <<>>
    ELSE (IF base_paths[i] \in DOMAIN listing
          THEN [k \in 1..Len(listing[base_paths[i]]) |->
                    FilePath(base_paths[i], listing[base_paths[i]][k])]
          ELSE <<>>) \o ExpectedScan(i + 1)
IsFolderError(err) == err[2][1][1] = PyStr("folder")
IsMissing(root) == root \notin DOMAIN listing
ScanComplete ==
    /\ scanned = ExpectedScan(1)
    /\ Len(SelectSeq(results.errors, IsFolderError))
            = Len(SelectSeq(base_paths, IsMissing))
    /\ \A k \in 1..Len(SelectSeq(base_paths, IsMissing)) :
            SelectSeq(results.errors, IsFolderError)[k][2][1][2]
                = Text(PathStr(SelectSeq(base_paths, IsMissing)[k]))
    /\ DOMAIN results = {"scanned_folders", "files", "classes", "errors"}
    /\ results.scanned_folders = base_paths
    /\ (Range(base_paths) \cap DOMAIN listing = {}) =>
            results.files = <<>> /\ results.classes = <<>>

\* C6: scan_folders always comes to its return, with the four keys; by then
\* every missing root has left exactly one error entry and every file of
\* every existing root has been scanned, whatever failed before it.
C6_ScanNeverAborts == <>(pc = "dumps" /\ ScanComplete)

\* C6's case: a missing root and a file that does not parse came first,
\* and the class of the file after them is in the output.
C6_Witness ==
    /\ pc = "dumps"
    /\ base_paths = <<MissingRoot, TestsRoot>>
    /\ listing[TestsRoot] = <<"broken.py", "text_transformer.py">>
    /\ Len(results.classes) = 1
    /\ Len(results.errors) = 1

\* C7: the merge drops an error entry only if it is a syntax error: every
\* file that could not be read or whose parse failed otherwise has its
\* entry in the errors of the output.
C7_OnlySyntaxErrorsDropped ==
    ScanReturned =>
        \A rn \in FilesToScan :
            FileKind(rn[2]) \in {"UnicodeDecodeError", "ValueError"} =>
                \E j \in 1..Len(results.errors) :
                    results.errors[j][2][1] = <<PyStr("file"), FilePath(rn[1], rn[2])>>

\* C8: parse_folders returns a JSON document whatever the reconstructed
\* values are.
C8_ParseFoldersNeverFails == pc = "done" => ~IsRaise(output)

\* The pairs of a mapping whose value does not reconstruct.
FailingPairs(n) == { i \in 1..Len(n[2]) : IsRaise(parse_value(n[2][i][2])) }
KeysDiffer(n) ==
    \A i, j \in 1..Len(n[2]) :
        i # j => ~PyEq(DictEntry(n[2][i])[1], DictEntry(n[2][j])[1])

\* C9: for a mapping of n pairs with different keys of which exactly one
\* value does not reconstruct, parse_value returns a mapping of n entries:
\* the placeholder for that value, and for the other pairs the
\* reconstruction of their own value.
C9_MappingFaultIsolation ==
    (/\ pc = "returned"
     /\ node[1] = "Dict"
     /\ KeysDiffer(node)
     /\ Count(FailingPairs(node)) = 1) =>
        /\ ~IsRaise(value)
        /\ Len(value[2]) = Len(node[2])
        /\ \A i \in 1..Len(node[2]) :
                value[2][i][2] = IF i \in FailingPairs(node)
                                 THEN PyStr("<parse_error_val>")
                                 ELSE parse_value(node[2][i][2])

\* C11: kwonly_defaults is as long as kwonly_args and its entry i belongs to
\* keyword-only parameter i: it is null exactly when that parameter has no
\* default, and the error placeholder, never null, when the default does
\* not reconstruct.
C11_KwOnlyDefaults ==
    pc = "returned" =>
        /\ Len(arguments.kwonly_defaults) = Len(arguments.kwonly_args)
        /\ \A i \in 1..Len(fargs.kwonlyargs) :
            /\ arguments.kwonly_args[i].name = PyStr(arg_of(fargs.kwonlyargs[i]))
            /\ arguments.kwonly_defaults[i] = PyNone <=> fargs.kw_defaults[i] = Absent
            /\ (fargs.kw_defaults[i] # Absent /\ IsRaise(parse_value(fargs.kw_defaults[i])))
                    => arguments.kwonly_defaults[i] = PyStr("<kw_default_error>")

\* The alignment as far as it holds: entry i is null for a parameter without
\* default and otherwise the reconstruction of its default, which is null
\* as well when the default is None.
KwOnlyDefaultsReconstructed ==
    pc = "returned" =>
        /\ Len(arguments.kwonly_defaults) = Len(arguments.kwonly_args)
        /\ \A i \in 1..Len(fargs.kwonlyargs) :
            /\ arguments.kwonly_args[i].name = PyStr(arg_of(fargs.kwonlyargs[i]))
            /\ arguments.kwonly_defaults[i] =
                    IF fargs.kw_defaults[i] = Absent THEN PyNone
                    ELSE IF IsRaise(parse_value(fargs.kw_defaults[i]))
                    THEN PyStr("<kw_default_error>")
                    ELSE parse_value(fargs.kw_defaults[i])

\* parse_file is at work on python_file, or has just returned.
InParseFile == pc \in {"read", "parse", "walk", "merge"}
ReadFails == FileKind(FileName) = "UnicodeDecodeError"
ParseFails == FileKind(FileName) \in {"SyntaxError", "ValueError"}
OneErrorForFile ==
    /\ file_results.classes = <<>>
    /\ Len(file_results.errors) = 1
    /\ file_results.errors[1][2][1] = <<PyStr("file"), python_file>>
\* What parse_file returns, by what became of the read and the parse.
ParseFileReturn ==
    pc = "merge" =>
        /\ (ReadFails \/ ParseFails) => OneErrorForFile
        /\ file_results.classes # <<>> => ~ReadFails /\ ~ParseFails
\* The steps of parse_file: read, then parse, then walk, then return, with
\* the return straight after a read or a parse that fails.
ParseFileStep ==
    /\ pc' = "parse" => pc = "read" /\ ~ReadFails
    /\ pc' = "walk" => pc = "parse" /\ ~ParseFails
    /\ (pc' = "merge" /\ pc # "merge") =>
            \/ pc = "read" /\ ReadFails
            \/ pc = "parse" /\ ParseFails
            \/ pc = "walk"
    /\ (InParseFile /\ pc # "merge" /\ pc' # pc) => pc' \in {"parse", "walk", "merge"}
    /\ (pc \in {"read", "parse"} /\ file_results'.classes # <<>>) => FALSE

\* C12: parse_file goes Unread, Read, Parsed, Walked, Done: a read that fails
\* ends it before the parse and a parse that fails before the walk, each
\* with no class and exactly one error entry carrying the file path; class
\* records come only after both succeeded, and every step leads on to the
\* return.
C12_ParseFileStateMachine == [](ParseFileReturn) /\ [][ParseFileStep]_vars

\* C12's case: parse_file has returned from a file it could not read, after
\* returning from one that did not parse.
C12_Witness ==
    /\ pc = "merge"
    /\ ReadFails
    /\ OneErrorForFile
    /\ Len(scanned) = 2
    /\ scanned[1] = FilePath(TestsRoot, "broken.py")

\* The statements below a statement, and the class definitions of a tree
\* level by level: those among the statements, then those one level down.
BodyOf(stmt) == IF stmt[1] \in {"ClassDef", "FunctionDef"} THEN stmt[2].body ELSE <<>>
RECURSIVE Below(_, _)
Below(stmts, i) ==
    IF i > Len(stmts) THEN <<>> ELSE BodyOf(stmts[i]) \o Below(stmts, i + 1)
IsClassDef(stmt) == stmt[1] = "ClassDef"
RECURSIVE LevelOrder(_)
LevelOrder(stmts) ==
    IF stmts = <<>> THEN <<>>
    ELSE SelectSeq(stmts, IsClassDef) \o LevelOrder(Below(stmts, 1))
Retained(stmts) == SelectSeq(LevelOrder(stmts), HasMarker)

\* C13: on a file that parsed, every class definition, at the top level, in
\* another class or in a function, is extracted exactly once: the classes
\* returned are the records of the matching class definitions of the whole
\* tree, one each, in the order of the walk (level by level), also beside a
\* class with a part that failed to extract; no file error is added.
C13_EveryClassOnce ==
    (pc = "merge" /\ FileKind(FileName) = "module") =>
        /\ Len(file_results.classes) = Len(Retained(Tree(FileName)))
        /\ \A i \in 1..Len(file_results.classes) :
            /\ file_results.classes[i].name = Text(Retained(Tree(FileName))[i][2].name)
            /\ file_results.classes[i].file = python_file
            /\ \A f \in DOMAIN file_results.classes[i] \ {"file"} :
                file_results.classes[i][f]
                    = extract_class_info(Retained(Tree(FileName))[i])[f]
        /\ file_results.errors = <<>>

\* C13's case: the walk of nested.py has returned Alpha of the top level
\* before Inner of a function and Empty of a class, Alpha with the message
\* of its attribute.
C13_Witness ==
    /\ pc = "merge"
    /\ FileName = "nested.py"
    /\ Len(file_results.classes) = 3
    /\ file_results.classes[1].name = PyStr("Alpha")
    /\ Len(file_results.classes[1].parsing_errors) = 1
    /\ file_results.classes[2].name = PyStr("Inner")
    /\ file_results.classes[3].name = PyStr("Empty")

\* Two pairs of a mapping literal with the same literal for a key.
DuplicateLiteralKeys(n, i, j) ==
    /\ n[2][i][1][1] = "Constant"
    /\ n[2][j][1][1] = "Constant"
    /\ PyEq(n[2][i][1][2], n[2][j][1][2])
\* The pairs whose key no earlier pair has: one for each distinct source key.
FirstOfKey(n) ==
    { i \in 1..Len(n[2]) : \A j \in 1..(i - 1) : ~DuplicateLiteralKeys(n, j, i) }
\* The r-th of them.
NthFirst(n, r) ==
    CHOOSE i \in FirstOfKey(n) : Count({ j \in FirstOfKey(n) : j <= i }) = r

\* C14: the mapping parse_value returns for a mapping literal has one entry
\* for each distinct source key, in source order: only pairs with the same
\* literal key become one entry; identifier keys, keys that fail and
\* unpacking entries each keep an entry of their own.
C14_PairsPreserved ==
    (pc = "returned" /\ node[1] = "Dict" /\ ~IsRaise(value)) =>
        /\ Len(value[2]) = Count(FirstOfKey(node))
        /\ \A r \in 1..Len(value[2]) :
                value[2][r][1] = DictEntry(node[2][NthFirst(node, r)])[1]

\* The preservation as far as it holds: one entry for each distinct
\* reconstructed key, in the order of first appearance, with the value of
\* the last pair that has that key.
ReconstructedKeysDiffer(n, i, j) ==
    ~PyEq(DictEntry(n[2][i])[1], DictEntry(n[2][j])[1])
FirstOfReconstructedKey(n) ==
    { i \in 1..Len(n[2]) : \A j \in 1..(i - 1) : ReconstructedKeysDiffer(n, j, i) }
LastOfReconstructedKey(n) ==
    { i \in 1..Len(n[2]) : \A j \in (i + 1)..Len(n[2]) : ReconstructedKeysDiffer(n, i, j) }
PairsPreservedByReconstructedKey ==
    (pc = "returned" /\ node[1] = "Dict" /\ ~IsRaise(value)) =>
        /\ Len(value[2]) = Count(FirstOfReconstructedKey(node))
        /\ \A r \in 1..Len(value[2]) :
            /\ \E i \in FirstOfReconstructedKey(node) :
                /\ Count({ j \in FirstOfReconstructedKey(node) : j <= i }) = r
                /\ value[2][r][1] = DictEntry(node[2][i])[1]
            /\ \E i \in LastOfReconstructedKey(node) :
                /\ PyEq(value[2][r][1], DictEntry(node[2][i])[1])
                /\ value[2][r][2] = DictEntry(node[2][i])[2]

====
